---- MODULE Spec2Model ----
(***************************************************************************)
(* Course catalog service (src/app.py): a flat JSON file of course records *)
(* read in full and rewritten in full by save_courses, and the Flask       *)
(* handlers index, course_catalog, add_course and course_details on top.   *)
(*                                                                         *)
(* Three specifications share the definitions of the store functions:      *)
(*   StoreSpec  load_courses / save_courses called directly, one at a time *)
(*   Spec       the request handlers, one request at a time                *)
(*   ConcSpec   two workers running save_courses step by step, interleaved *)
(***************************************************************************)
EXTENDS Integers, Sequences, FiniteSets, TLC

VARIABLES
    file,       \* the backing file COURSE_FILE
    initFile,   \* the backing file as it was at start (history)
    req,        \* the call or request handled last
    resp,       \* the response of the handler that ran last
    before,     \* StoreSpec: what load_courses() gave before the call
    after,      \* StoreSpec: what load_courses() gives after the call
    raised,     \* StoreSpec: whether the call raised
    saved,      \* StoreSpec: the records of the save_courses calls that returned
    pc,         \* ConcSpec: each worker's position in save_courses
    data,       \* ConcSpec: each worker's argument `data`
    courses,    \* ConcSpec: each worker's local `courses`
    writers,    \* ConcSpec: the workers in the order their json.dump finished
    calls       \* ConcSpec: number of save_courses calls started

vars == <<file, initFile, req, resp, before, after, raised, saved,
          pc, data, courses, writers, calls>>

storeVars == <<before, after, raised, saved>>
concVars == <<pc, data, courses, writers, calls>>

-----------------------------------------------------------------------------
(* Bounds *)

\* most records the backing file may hold before appends stop
MaxFile == 3
\* most save_courses calls the concurrent workers start
MaxCalls == 3

-----------------------------------------------------------------------------
(* Course records and submitted forms *)

\* the keys of the course dict, in the order add_course builds it
KeyOrder ==
    <<"code", "name", "instructor", "semester", "schedule", "classroom",
      "prerequisites", "grading", "description">>

FieldSet == {KeyOrder[i] : i \in 1..Len(KeyOrder)}

\* the order in which add_course reads and then checks the form fields
FormOrder ==
    <<"name", "instructor", "code", "semester", "schedule", "classroom",
      "prerequisites", "grading", "description">>

\* the label add_course puts in missing_fields for each field
Label(f) ==
    CASE f = "name" -> "Course name"
      [] f = "instructor" -> "Instructor"
      [] f = "code" -> "Course code"
      [] f = "semester" -> "Semester"
      [] f = "schedule" -> "Schedule"
      [] f = "classroom" -> "Classroom"
      [] f = "prerequisites" -> "Prerequisites"
      [] f = "grading" -> "Grading"
      [] f = "description" -> "Description"

\* sample values a client submits
FormCodes == {"CS1", "cs1"}
FormNames == {"Intro", "Algo"}
Sample(f) ==
    CASE f = "instructor" -> "Rao"
      [] f = "semester" -> "Fall"
      [] f = "schedule" -> "Mon"
      [] f = "classroom" -> "R1"
      [] f = "prerequisites" -> "None"
      [] f = "grading" -> "AF"
      [] f = "description" -> "Basics"
      [] OTHER -> "x"

\* <<absent fields, fields submitted empty>> of the sample submissions
DefectPatterns ==
    {<<{}, {}>>, <<FieldSet, {}>>, <<{}, FieldSet>>,
     <<{"description"}, {"name"}>>, <<{"name"}, {"description"}>>}
    \cup {<<{f}, {}>> : f \in FieldSet}
    \cup {<<{}, {f}>> : f \in FieldSet}

MakeForm(c, n, A, E) ==
    [f \in FieldSet \ A |->
        IF f \in E THEN ""
        ELSE IF f = "code" THEN c
        ELSE IF f = "name" THEN n
        ELSE Sample(f)]

\* request.form of the sample POSTs: complete forms with every code and name,
\* defective ones on one base
Forms ==
    {MakeForm(c, n, {}, {}) : c \in FormCodes, n \in FormNames}
    \cup {MakeForm("CS1", "Intro", p[1], p[2]) : p \in DefectPatterns}

NoForm == [f \in {} |-> ""]

\* records a caller may hand to save_courses directly: the complete ones and
\* ones with an empty description
Records ==
    {[MakeForm(c, n, {}, {}) EXCEPT !["description"] = d] :
        c \in FormCodes, n \in FormNames, d \in {"Basics", ""}}

ValidRecords == {MakeForm(c, n, {}, {}) : c \in FormCodes, n \in FormNames}

\* codes a client asks course_details for
LookupCodes == {"CS1", "cs1", "ZZ9"}

-----------------------------------------------------------------------------
(* The backing file and its JSON text *)

\* os.path.exists(COURSE_FILE) is false
Absent == [kind |-> "absent", items |-> <<>>, size |-> 0]
\* a zero-length file: what open(COURSE_FILE, 'w') leaves before the dump
Truncated == [kind |-> "empty", items |-> <<>>, size |-> 0]
\* a file holding n characters that are not JSON
NotJson(n) == [kind |-> "garbage", items |-> <<>>, size |-> n]
Garbage == NotJson(Len("not json"))

\* json.dump of one dict: its "key": "value" pairs in the dict's order
DumpObject(d) ==
    LET keys == SelectSeq(KeyOrder, LAMBDA k : k \in DOMAIN d)
    IN [i \in 1..Len(keys) |-> <<keys[i], d[keys[i]]>>]

\* characters of the first n "key": "value" lines of a dumped object, each
\* indented by 8
RECURSIVE PairsSize(_, _)
PairsSize(o, n) ==
    IF n = 0 THEN 0
    ELSE 14 + Len(o[n][1]) + Len(o[n][2]) + PairsSize(o, n - 1)

\* number of characters of one dumped object under indent=4
ObjectSize(o) ==
    IF Len(o) = 0 THEN 6
    ELSE 6 + PairsSize(o, Len(o)) + 2 * (Len(o) - 1) + 6

\* characters of the first n dumped objects of an array
RECURSIVE ItemsSize(_, _)
ItemsSize(items, n) ==
    IF n = 0 THEN 0 ELSE ObjectSize(items[n]) + ItemsSize(items, n - 1)

\* number of characters of a dumped array under indent=4
ArraySize(items) ==
    IF Len(items) = 0 THEN 2
    ELSE 2 + ItemsSize(items, Len(items)) + 2 * (Len(items) - 1) + 2

\* json.dump(courses, file, indent=4): the text of a JSON array of objects
JsonDump(cs) ==
    LET items == [i \in 1..Len(cs) |-> DumpObject(cs[i])]
    IN [kind |-> "array", items |-> items, size |-> ArraySize(items)]

\* json.load of the first n pairs of one object: a dict; of a repeated key
\* the last value counts
RECURSIVE LoadPairs(_, _)
LoadPairs(pairs, n) ==
    IF n = 0 THEN [k \in {} |-> ""]
    ELSE (pairs[n][1] :> pairs[n][2]) @@ LoadPairs(pairs, n - 1)

\* json.load of one object
LoadObject(pairs) == LoadPairs(pairs, Len(pairs))

\* json.load(file): the list of dicts, or JSONDecodeError on text that is not JSON
JsonLoad(f) ==
    IF f.kind = "array"
    THEN [ok |-> TRUE, error |-> "",
          courses |-> [i \in 1..Len(f.items) |-> LoadObject(f.items[i])]]
    ELSE [ok |-> FALSE, error |-> "JSONDecodeError", courses |-> <<>>]

\* variant: a write that lands behind what the file holds (append mode)
WriteAtEnd(f, text) ==
    IF f.size = 0 THEN text ELSE NotJson(f.size + text.size)

\* the file after `text` is written at offset 0 of a handle opened with 'w':
\* text at least as long as what another handle wrote since the truncation
\* replaces it, shorter text leaves the other's tail behind it
WriteAtStart(f, text) ==
    IF f.size <= text.size THEN text ELSE NotJson(f.size)

-----------------------------------------------------------------------------
(* load_courses and save_courses *)

\* variant: load_courses that catches the decode error and returns []
LoadCoursesSwallow(f) ==
    IF f.kind = "absent" \/ ~JsonLoad(f).ok
    THEN [ok |-> TRUE, error |-> "", courses |-> <<>>]
    ELSE JsonLoad(f)

\* load_courses(): [] when the file does not exist, else json.load of it
LoadCourses(f) ==
    IF f.kind = "absent"
    THEN [ok |-> TRUE, error |-> "", courses |-> <<>>]
    ELSE JsonLoad(f)

\* variant: save_courses that replaces the records with the code of the new one
SaveAppendUpsert(cs, d) ==
    IF \E i \in 1..Len(cs) : cs[i]["code"] = d["code"]
    THEN [i \in 1..Len(cs) |-> IF cs[i]["code"] = d["code"] THEN d ELSE cs[i]]
    ELSE Append(cs, d)

\* variant: save_courses that keeps the new record only
SaveAppendOverwrite(cs, d) == <<d>>

\* variant: save_courses that inserts the new record first
SaveAppendFront(cs, d) == <<d>> \o cs

\* courses.append(data)
SaveAppend(cs, d) == Append(cs, d)

\* save_courses(data) run without interruption: the file it leaves and
\* whether it raised (the load raises before the file is opened for writing)
SaveCourses(f, d) ==
    LET r == LoadCourses(f)
    IN IF ~r.ok
       THEN [raised |-> TRUE, error |-> r.error, file |-> f]
       ELSE [raised |-> FALSE, error |-> "",
             file |-> WriteAtStart(Truncated, JsonDump(SaveAppend(r.courses, d)))]

\* the records of a file, none when it cannot be read
Content(f) == LoadCourses(f).courses

-----------------------------------------------------------------------------
(* Requests and responses *)

Request(op, form, code, d) == [op |-> op, form |-> form, code |-> code, data |-> d]

NoRequest == Request("none", NoForm, "", NoForm)

\* what a handler returns: status, kind (render, redirect, text, error), the
\* template, endpoint or text, the flashed messages, the labels collected in
\* missing_fields, the records handed to the template, the exception's name
Response(status, kind, target, flash, missing, cs, error) ==
    [status |-> status, kind |-> kind, target |-> target, flash |-> flash,
     missing |-> missing, courses |-> cs, error |-> error]

NoResponse == Response(0, "none", "", <<>>, <<>>, <<>>, "")

\* render_template(template, ...)
Render(template, cs) == Response(200, "render", template, <<>>, <<>>, cs, "")

\* flash(message, category); return redirect(url_for(endpoint))
Redirect(endpoint, category, message, missing) ==
    Response(302, "redirect", endpoint,
             <<[category |-> category, message |-> message]>>, missing, <<>>, "")

\* request.form[key] of a key the submission lacks: werkzeug's
\* BadRequestKeyError, which Flask answers with 400 Bad Request
BadRequest(key) == Response(400, "error", key, <<>>, <<>>, <<>>, "BadRequestKeyError")

\* an exception no handler catches: Flask answers 500
ServerError(error) == Response(500, "error", "", <<>>, <<>>, <<>>, error)

\* a view returning (text, 200)
Text(t) == Response(200, "text", t, <<>>, <<>>, <<>>, "")

-----------------------------------------------------------------------------
(* StoreSpec: the store functions called directly *)

StoreInit ==
    /\ file \in {Absent, Garbage, Truncated, JsonDump(<<>>)}
    /\ initFile = file
    /\ req = NoRequest
    /\ resp = NoResponse
    /\ before = LoadCourses(file)
    /\ after = LoadCourses(file)
    /\ raised = FALSE
    /\ saved = <<>>
    /\ pc = [p \in {} |-> ""]
    /\ data = [p \in {} |-> NoForm]
    /\ courses = [p \in {} |-> <<>>]
    /\ writers = <<>>
    /\ calls = 0

\* load_courses(); save_courses(c); load_courses()
StoreSave(c) ==
    /\ Len(Content(file)) < MaxFile
    /\ LET r == SaveCourses(file, c)
       IN /\ file' = r.file
          /\ raised' = r.raised
          /\ saved' = IF r.raised THEN saved ELSE Append(saved, c)
          /\ after' = LoadCourses(r.file)
    /\ before' = LoadCourses(file)
    /\ req' = Request("save", NoForm, "", c)
    /\ UNCHANGED <<initFile, resp, concVars>>

\* load_courses()
StoreLoad ==
    /\ before' = LoadCourses(file)
    /\ after' = LoadCourses(file)
    /\ raised' = ~LoadCourses(file).ok
    /\ req' = Request("load", NoForm, "", NoForm)
    /\ UNCHANGED <<file, initFile, resp, saved, concVars>>

StoreNext ==
    \/ \E c \in Records : StoreSave(c)
    \/ StoreLoad

StoreSpec == StoreInit /\ [][StoreNext]_vars

-----------------------------------------------------------------------------
(* add_course's validation and course_details' lookup *)

\* the fields request.form[...] is read for, in order, that the form lacks
AbsentFields(form) == SelectSeq(FormOrder, LAMBDA f : f \notin DOMAIN form)

\* variant: validation without the check of description
MissingFieldsSkipDescription(form) ==
    LET empty == SelectSeq(FormOrder,
                           LAMBDA f : form[f] = "" /\ f # "description")
    IN [i \in 1..Len(empty) |-> Label(empty[i])]

\* missing_fields: the labels of the fields whose value is falsy (the empty
\* string), in the order of the checks; every field is present here
MissingFields(form) ==
    LET empty == SelectSeq(FormOrder, LAMBDA f : form[f] = "")
    IN [i \in 1..Len(empty) |-> Label(empty[i])]

\* ', '.join(labels)
RECURSIVE Join(_)
Join(labels) ==
    IF Len(labels) = 0 THEN ""
    ELSE IF Len(labels) = 1 THEN labels[1]
    ELSE labels[1] \o ", " \o Join(Tail(labels))

\* the course dict add_course builds from the form values
CourseOf(form) == [k \in FieldSet |-> form[k]]

\* str.lower() on the sample codes (used by the variant and the witness below)
Lower(s) == IF s = "CS1" THEN "cs1" ELSE IF s = "ZZ9" THEN "zz9" ELSE s

\* variant: a lookup that compares codes ignoring case
RECURSIVE FindByCodeNoCase(_, _)
FindByCodeNoCase(cs, code) ==
    IF Len(cs) = 0 THEN <<>>
    ELSE IF Lower(Head(cs)["code"]) = Lower(code) THEN <<Head(cs)>>
    ELSE FindByCodeNoCase(Tail(cs), code)

\* variant: a lookup that scans from the end
RECURSIVE FindByCodeLast(_, _)
FindByCodeLast(cs, code) ==
    IF Len(cs) = 0 THEN <<>>
    ELSE IF cs[Len(cs)]["code"] = code THEN <<cs[Len(cs)]>>
    ELSE FindByCodeLast(SubSeq(cs, 1, Len(cs) - 1), code)

\* next((course for course in courses if course['code'] == code), None):
\* <<>> for None, else the one record found
RECURSIVE FindByCode(_, _)
FindByCode(cs, code) ==
    IF Len(cs) = 0 THEN <<>>
    ELSE IF Head(cs)["code"] = code THEN <<Head(cs)>>
    ELSE FindByCode(Tail(cs), code)

\* variant: course_details that uses the missing course and fails
MissResponseServerError(code) == ServerError("TypeError")

\* course_details when `not course`
MissResponse(code) ==
    Redirect("course_catalog", "error",
             "No course found with code '" \o code \o "'.", <<>>)

-----------------------------------------------------------------------------
(* Spec: the request handlers, one request at a time *)

\* a record written by an earlier save_courses call, with an empty description
Legacy == [MakeForm("CS1", "Intro", {}, {}) EXCEPT !["description"] = ""]

Init ==
    /\ file \in {Absent, Garbage, JsonDump(<<>>), JsonDump(<<Legacy>>)}
    /\ initFile = file
    /\ req = NoRequest
    /\ resp = NoResponse
    /\ before = LoadCourses(file)
    /\ after = LoadCourses(file)
    /\ raised = FALSE
    /\ saved = <<>>
    /\ pc = [p \in {} |-> ""]
    /\ data = [p \in {} |-> NoForm]
    /\ courses = [p \in {} |-> <<>>]
    /\ writers = <<>>
    /\ calls = 0

\* GET /
Index ==
    /\ req' = Request("index", NoForm, "", NoForm)
    /\ resp' = Render("index.html", <<>>)
    /\ UNCHANGED <<file, initFile, storeVars, concVars>>

\* GET /catalog
CourseCatalog ==
    /\ req' = Request("catalog", NoForm, "", NoForm)
    /\ LET r == LoadCourses(file)
       IN resp' = IF r.ok THEN Render("course_catalog.html", r.courses)
                  ELSE ServerError(r.error)
    /\ UNCHANGED <<file, initFile, storeVars, concVars>>

\* GET /add_course
AddCourseGet ==
    /\ req' = Request("add_get", NoForm, "", NoForm)
    /\ resp' = Render("add_course.html", <<>>)
    /\ UNCHANGED <<file, initFile, storeVars, concVars>>

\* POST /add_course with request.form = form
AddCoursePost(form) ==
    /\ req' = Request("add_post", form, "", NoForm)
    /\ IF AbsentFields(form) # <<>>
       THEN /\ resp' = BadRequest(AbsentFields(form)[1])
            /\ file' = file
       ELSE IF MissingFields(form) # <<>>
       THEN /\ resp' = Redirect("add_course", "error",
                                "Missing required fields: "
                                    \o Join(MissingFields(form)),
                                MissingFields(form))
            /\ file' = file
       ELSE /\ LoadCourses(file).ok => Len(Content(file)) < MaxFile
            /\ LET s == SaveCourses(file, CourseOf(form))
               IN /\ file' = s.file
                  /\ resp' = IF s.raised THEN ServerError(s.error)
                             ELSE Redirect("course_catalog", "success",
                                           "Course '" \o form["name"]
                                               \o "' added successfully!",
                                           <<>>)
    /\ UNCHANGED <<initFile, storeVars, concVars>>

\* GET /course/<code>
CourseDetails(code) ==
    /\ req' = Request("details", NoForm, code, NoForm)
    /\ LET r == LoadCourses(file)
           found == FindByCode(r.courses, code)
       IN resp' = IF ~r.ok THEN ServerError(r.error)
                  ELSE IF found = <<>> THEN MissResponse(code)
                  ELSE Render("course_details.html", found)
    /\ UNCHANGED <<file, initFile, storeVars, concVars>>

\* GET /manual-trace
ManualTrace ==
    /\ req' = Request("manual_trace", NoForm, "", NoForm)
    /\ resp' = Text("Manual trace recorded!")
    /\ UNCHANGED <<file, initFile, storeVars, concVars>>

\* GET /auto-instrumented
AutoInstrumented ==
    /\ req' = Request("auto_instrumented", NoForm, "", NoForm)
    /\ resp' = Text("This route is auto-instrumented!")
    /\ UNCHANGED <<file, initFile, storeVars, concVars>>

Next ==
    \/ Index
    \/ CourseCatalog
    \/ AddCourseGet
    \/ \E form \in Forms : AddCoursePost(form)
    \/ \E code \in LookupCodes : CourseDetails(code)
    \/ ManualTrace
    \/ AutoInstrumented

Spec == Init /\ [][Next]_vars

-----------------------------------------------------------------------------
(* ConcSpec: two workers in save_courses, interleaved statement by statement *)

Workers == {1, 2}

ConcInit ==
    /\ file \in {Absent, JsonDump(<<>>), JsonDump(<<Legacy>>)}
    /\ initFile = file
    /\ req = NoRequest
    /\ resp = NoResponse
    /\ before = LoadCourses(file)
    /\ after = LoadCourses(file)
    /\ raised = FALSE
    /\ saved = <<>>
    /\ pc = [p \in Workers |-> "idle"]
    /\ data = [p \in Workers |-> NoForm]
    /\ courses = [p \in Workers |-> <<>>]
    /\ writers = <<>>
    /\ calls = 0

\* worker p enters save_courses(d)
Call(p, d) ==
    /\ pc[p] = "idle"
    /\ calls < MaxCalls
    /\ calls' = calls + 1
    /\ pc' = [pc EXCEPT ![p] = "load"]
    /\ data' = [data EXCEPT ![p] = d]
    /\ courses' = [courses EXCEPT ![p] = <<>>]
    /\ writers' = SelectSeq(writers, LAMBDA w : w # p)
    /\ UNCHANGED <<file, initFile, req, resp, storeVars>>

\* courses = load_courses(); courses.append(data)
LoadStep(p) ==
    /\ pc[p] = "load"
    /\ LET r == LoadCourses(file)
       IN IF r.ok
          THEN /\ courses' = [courses EXCEPT ![p] = SaveAppend(r.courses, data[p])]
               /\ pc' = [pc EXCEPT ![p] = "open"]
          ELSE /\ courses' = courses
               /\ pc' = [pc EXCEPT ![p] = "failed"]
    /\ UNCHANGED <<file, initFile, req, resp, storeVars, data, writers, calls>>

\* open(COURSE_FILE, 'w'): creates or truncates the file
OpenStep(p) ==
    /\ pc[p] = "open"
    /\ file' = Truncated
    /\ pc' = [pc EXCEPT ![p] = "dump"]
    /\ UNCHANGED <<initFile, req, resp, storeVars, data, courses, writers, calls>>

\* json.dump(courses, file, indent=4) and the close that flushes it
DumpStep(p) ==
    /\ pc[p] = "dump"
    /\ file' = WriteAtStart(file, JsonDump(courses[p]))
    /\ pc' = [pc EXCEPT ![p] = "done"]
    /\ writers' = Append(writers, p)
    /\ UNCHANGED <<initFile, req, resp, storeVars, data, courses, calls>>

\* save_courses has returned or raised; the worker takes its next request
Return(p) ==
    /\ pc[p] \in {"done", "failed"}
    /\ pc' = [pc EXCEPT ![p] = "idle"]
    /\ UNCHANGED <<file, initFile, req, resp, storeVars, data, courses, writers, calls>>

ConcNext ==
    \E p \in Workers :
        \/ \E d \in ValidRecords : Call(p, d)
        \/ LoadStep(p)
        \/ OpenStep(p)
        \/ DumpStep(p)
        \/ Return(p)

ConcSpec == ConcInit /\ [][ConcNext]_vars

-----------------------------------------------------------------------------
(* Claims about the store functions, checked under StoreSpec *)

\* C1: when load_courses() succeeded before save_courses(c), load_courses()
\* after it succeeds, is exactly one record longer and ends with c, whether
\* or not the file already held a record with c's code.
C1_AppendThenLoad ==
    (req.op = "save" /\ before.ok) =>
        /\ ~raised
        /\ after.ok
        /\ Len(after.courses) = Len(before.courses) + 1
        /\ after.courses[Len(after.courses)] = req.data

\* a save of a record whose code the file already held
C1_Witness ==
    /\ req.op = "save"
    /\ before.ok
    /\ ~raised
    /\ \E i \in 1..Len(before.courses) :
          /\ before.courses[i]["code"] = req.data["code"]
          /\ before.courses[i] # req.data

\* C2: starting from an absent file, after the save_courses calls c1..cN
\* (N >= 0) load_courses() returns exactly <<c1, ..., cN>>.
C2_RoundTripInOrder ==
    (initFile = Absent) =>
        LoadCourses(file) = [ok |-> TRUE, error |-> "", courses |-> saved]

\* three saves from an absent file, of records that are not all the same
C2_Witness ==
    /\ initFile = Absent
    /\ Len(saved) = 3
    /\ saved[1] # saved[2]
    /\ saved[2] # saved[3]
    /\ Content(file) = saved

\* C9: on a file that is present but not JSON, load_courses raises
\* JSONDecodeError to its caller, and save_courses raises too and leaves the
\* file as it was.
C9_MalformedFileFails ==
    [][(file.kind \in {"empty", "garbage"}) =>
          /\ file' = file
          /\ raised'
          /\ ~before'.ok
          /\ before'.error = "JSONDecodeError"
          /\ ~after'.ok]_vars

\* a save_courses call that raised on a file of text that is not JSON
C9_Witness ==
    /\ req.op = "save"
    /\ raised
    /\ file = Garbage
    /\ saved = <<>>

-----------------------------------------------------------------------------
(* Claims about the request handlers, checked under Spec *)

\* the labels of the required fields a form lacks or holds empty
AbsentOrEmpty(form) ==
    LET bad == SelectSeq(FormOrder,
                         LAMBDA f : f \notin DOMAIN form \/ form[f] = "")
    IN [i \in 1..Len(bad) |-> Label(bad[i])]

\* C3: validation of a POSTed form reports exactly the required fields that
\* are absent or empty (a form with no fields: one entry per required field,
\* a complete form: none), as data and not as a raised failure.
C3_ValidationReportsAbsentOrEmpty ==
    (req.op = "add_post") =>
        /\ resp.missing = AbsentOrEmpty(req.form)
        /\ resp.error # "BadRequestKeyError"

\* C4: every record of the file that the add_course POST handler appended
\* holds every required field as a non-empty string.
C4_HandlerRecordsComplete ==
    \A i \in (Len(Content(initFile)) + 1)..Len(Content(file)) :
        /\ DOMAIN Content(file)[i] = FieldSet
        /\ \A k \in FieldSet : Content(file)[i][k] # ""

\* the handler has appended a record behind an older, incomplete one
C4_Witness ==
    /\ initFile = JsonDump(<<Legacy>>)
    /\ req.op = "add_post"
    /\ resp.target = "course_catalog"
    /\ Len(Content(file)) = 2
    /\ Content(file)[1]["description"] = ""

\* C5: a POST with a required field missing or empty leaves the file as it
\* was and ends in a redirect back to the form.
C5_InvalidPostRedirectsUnchanged ==
    [][(req'.op = "add_post" /\ AbsentOrEmpty(req'.form) # <<>>) =>
          /\ file' = file
          /\ resp'.kind = "redirect"
          /\ resp'.target = "add_course"]_vars

\* C6: on a readable file course_details shows the record of least index
\* whose code is the requested one, compared exactly, and answers with no
\* record when no code matches.
C6_FirstExactMatch ==
    (req.op = "details" /\ LoadCourses(file).ok) =>
        LET cs == Content(file)
            hits == {i \in 1..Len(cs) : cs[i]["code"] = req.code}
        IN IF hits = {}
           THEN resp.courses = <<>> /\ resp.kind = "redirect"
           ELSE /\ resp.kind = "render"
                /\ resp.target = "course_details.html"
                /\ \E i \in hits :
                      /\ \A j \in hits : i <= j
                      /\ resp.courses = <<cs[i]>>

\* a lookup that passed a record whose code differs only in case and chose
\* the earlier of two records with the requested code
C6_Witness ==
    /\ req.op = "details"
    /\ LoadCourses(file).ok
    /\ Len(Content(file)) = 3
    /\ Lower(Content(file)[1]["code"]) = Lower(req.code)
    /\ Content(file)[1]["code"] # req.code
    /\ Content(file)[2]["code"] = req.code
    /\ Content(file)[3]["code"] = req.code
    /\ Content(file)[2] # Content(file)[3]
    /\ resp.courses = <<Content(file)[2]>>

\* s is an initial segment of t
IsPrefix(s, t) ==
    /\ Len(s) <= Len(t)
    /\ \A i \in 1..Len(s) : s[i] = t[i]

\* C7: with requests handled one at a time, every step leaves the records
\* the file held as a prefix of the records it holds, and an unreadable file
\* as it was.
C7_GrowsOnlyByAppends ==
    [][/\ IsPrefix(Content(file), Content(file'))
       /\ ~LoadCourses(file).ok => file' = file]_vars

\* two appends behind the record the file started with
C7_Witness ==
    /\ initFile = JsonDump(<<Legacy>>)
    /\ Len(Content(file)) = 3
    /\ Content(file)[1] = Legacy
    /\ Content(file)[2] # Content(file)[3]

ReadOnlyOps == {"index", "catalog", "add_get", "details"}

\* C10: the index page, the catalog, the GET of the form and course_details
\* leave the file as it was, and a lookup that finds no record ends in a
\* redirect to the catalog with a flashed notice.
C10_ReadOnlyRequests ==
    [][/\ req'.op \in ReadOnlyOps => file' = file
       /\ (/\ req'.op = "details"
           /\ LoadCourses(file).ok
           /\ \A i \in 1..Len(Content(file)) :
                 Content(file)[i]["code"] # req'.code)
          => /\ resp'.status = 302
             /\ resp'.kind = "redirect"
             /\ resp'.target = "course_catalog"
             /\ Len(resp'.flash) = 1
             /\ resp'.flash[1].category = "error"]_vars

\* a lookup miss on a file that holds records
C10_Witness ==
    /\ req.op = "details"
    /\ req.code = "ZZ9"
    /\ Len(Content(file)) = 2
    /\ file # initFile
    /\ resp.kind = "redirect"
    /\ resp.flash[1].message = "No course found with code 'ZZ9'."

-----------------------------------------------------------------------------
(* The claim about concurrent save_courses calls, checked under ConcSpec *)

\* what worker p loaded, before it appended its own record
Loaded(p) == SubSeq(courses[p], 1, Len(courses[p]) - 1)

\* C8: when two save_courses calls that loaded the same content (each loaded
\* before the other wrote) have both returned, the file holds what the last
\* writer dumped, one record more than was loaded, so the earlier writer's
\* append is lost; or it holds the tail of a longer earlier dump behind the
\* later one and is not JSON any more. It never holds both new records.
C8_LastWriterWins ==
    (/\ \A p \in Workers : pc[p] = "done"
     /\ Loaded(1) = Loaded(2)) =>
        LET first == writers[1]
            last == writers[2]
        IN /\ Len(writers) = 2
           /\ \/ /\ file = JsonDump(courses[last])
                 /\ Len(Content(file)) = Len(Loaded(last)) + 1
              \/ /\ file.kind = "garbage"
                 /\ JsonDump(courses[first]).size > JsonDump(courses[last]).size

\* both calls returned, the file is readable and the first writer's record,
\* different from the second's, is not in it
C8_Witness ==
    /\ \A p \in Workers : pc[p] = "done"
    /\ Len(writers) = 2
    /\ Loaded(1) = Loaded(2)
    /\ data[1] # data[2]
    /\ LoadCourses(file).ok
    /\ Content(file) = Append(Loaded(1), data[writers[2]])
    /\ \A i \in 1..Len(Content(file)) : Content(file)[i] # data[writers[1]]

====
